---- MODULE Spec2Model ----
(***************************************************************************)
(* Job orchestration core of the audio generation server (src/src/app.py). *)
(*                                                                         *)
(* Three kinds of actors share the task registry App.__tasks:              *)
(*   - the request handlers and the expiry coroutine, which run on the     *)
(*     single event-loop thread (none of them awaits inside its body, so   *)
(*     they never interleave with each other);                             *)
(*   - one __background_generate execution per accepted submission.  It is *)
(*     a plain (non async) function handed to BackgroundTasks.add_task, so *)
(*     the framework runs each one on a thread of its thread pool; these   *)
(*     executions interleave with each other and with the event loop at    *)
(*     statement granularity.                                              *)
(* The logging client is treated as fire-and-forget: a log call changes no *)
(* state and does not raise.                                               *)
(***************************************************************************)
EXTENDS Integers, Sequences, FiniteSets, TLC

\* ---------------------------------------------------------------- bounds
MaxSubmits == 2          \* submissions accepted in one behaviour
MaxApiJobs == 1          \* submissions accepted in a behaviour with status or queue requests
MaxTime == 400           \* the clock stops advancing here
TimeStep == 200          \* granularity of the clock
MaxLiveTime == 800       \* where the clock stops in behaviours checked for progress

\* ------------------------------------------------------- program constants
ExpireTime == 300        \* config.get("expire", 300)
ReapPeriod == 300        \* asyncio.sleep(300)

Ids == {"u1", "u2"}      \* request.user_id
Prompts == {"p1", "p2"} \* request.prompt
NoPrompt == "none"       \* no artifact file
Msgs == {"", "boom"}     \* str(e) of the exception raised by the generation call
Missing == "missing"     \* a query parameter that the request does not carry
NoExchange == <<>>       \* no GET /status request was just served
NoKey == <<>>            \* an optional key of a task dict that is not set
None == -1

VARIABLES
    clock,        \* time.time()
    debug,        \* App.__debug
    tasks,        \* App.__tasks : id -> task dict (Absent when the key is missing)
    keys,         \* insertion order of the keys of App.__tasks
    files,        \* artifact files present in the output directory
    content,      \* per id: the prompt its artifact file was generated from
    workers,      \* one entry per __background_generate execution, in submission order
    rpc,          \* position of __cleanup_expired_files
    expired,      \* its local 'expired' (computed from its local 'now'), the part not yet processed
    wake,         \* clock value at which its sleep ends
    completedAt,  \* per id: when the current record completed: the time stamped
                  \* by line 108 for Done, the time of line 111 for Error (which
                  \* stamps nothing); None after a submission and after deletion
    reapDue,      \* ids that were due at the start of the current/last reaper tick
    rmFailed,     \* ids whose artifact the current/last reaper tick failed to remove
    pong,         \* GET /ping: the response just served
    sresp,        \* GET /status: the request just served and its response
    qpc,          \* position of queue_status: the entry of the response built next
    qresp,        \* the response of queue_status as built so far
    qclean        \* no worker wrote a status since queue_status started

vars == <<clock, debug, tasks, keys, files, content, workers, rpc, expired, wake,
          completedAt, reapDue, rmFailed, pong, sresp, qpc, qresp, qclean>>

\* ------------------------------------------------------------ helpers
Range(s) == {s[i] : i \in 1..Len(s)}

RemoveKey(s, k) == SelectSeq(s, LAMBDA x : x # k)

Absent == [status |-> "absent", timestamp |-> 0, result |-> NoKey, error |-> NoKey]

Present(id) == tasks[id] # Absent

\* os.path.join(self.__output_dir, f"{user_id}.wav")
OutPath(id) == <<"output", id, "wav">>

\* JSONResponse(status_code=202, content={"message": "Task accepted", "task_id": request.user_id})
generate_audio_response(id) ==
    [code |-> 202, body |-> [message |-> "Task accepted", task_id |-> id]]

\* {"status": "pending", "timestamp": time.time()}
NewTask(t) == [status |-> "pending", timestamp |-> t, result |-> NoKey, error |-> NoKey]

\* A worker entry: the arguments and the position of one execution, and what
\* it did so far (held: it set processing and has not yet set done/error;
\* gen: outcome of the generation call; gens: generation calls made;
\* setDone: line 106 ran; saves: __save_to_db got past the debug check;
\* save: outcome of the store attempt; errStatus: line 111 ran; errSet: line
\* 112 ran; msg: str(e); resp: the response of the request that scheduled it;
\* overlap: an earlier execution for the same id had not ended at submission).
Ended(w) == workers[w].pc \in {"finished", "crashed"}

\* Does a submission of id arrive while an earlier one of the same id is
\* still queued or running?
Overlaps(id) == \E v \in 1..Len(workers) : workers[v].id = id /\ ~Ended(v)

NewWorkerBlocking(id, p) ==
    [id |-> id, prompt |-> p, overlap |-> Overlaps(id), pc |-> "generating", held |-> TRUE, gen |-> "none", msg |-> "",
     gens |-> 1, setDone |-> FALSE, saves |-> 0, save |-> "none",
     errStatus |-> FALSE, errSet |-> FALSE, resp |-> generate_audio_response(id)]

NewWorker(id, p) ==
    [id |-> id, prompt |-> p, overlap |-> Overlaps(id), pc |-> "queued", held |-> FALSE, gen |-> "none", msg |-> "",
     gens |-> 0, setDone |-> FALSE, saves |-> 0, save |-> "none",
     errStatus |-> FALSE, errSet |-> FALSE, resp |-> generate_audio_response(id)]

Init ==
    /\ clock = 0
    /\ debug \in BOOLEAN
    /\ tasks = [id \in Ids |-> Absent]
    /\ keys = <<>>
    /\ files = {}
    /\ content = [id \in Ids |-> NoPrompt]
    /\ workers = <<>>
    /\ rpc = "sleep"
    /\ expired = <<>>
    /\ wake = 0
    /\ completedAt = [id \in Ids |-> None]
    /\ reapDue = {}
    /\ rmFailed = {}
    /\ pong = NoExchange
    /\ sresp = NoExchange
    /\ qpc = "idle"
    /\ qresp = NoKey
    /\ qclean = TRUE

\* A step that is not part of a GET /status or GET /queue request.
Quiet ==
    /\ sresp' = NoExchange
    /\ pong' = NoExchange
    /\ UNCHANGED <<qpc, qresp, qclean>>

\* A worker step that writes a status: it may fall between two entries of a
\* queue_status response under construction.
StatusWrite ==
    /\ sresp' = NoExchange
    /\ pong' = NoExchange
    /\ qclean' = (qclean /\ qpc = "idle")
    /\ UNCHANGED <<qpc, qresp>>

\* ------------------------------------------------------------ the clock
Tick ==
    /\ clock + TimeStep <= MaxTime
    /\ clock' = clock + TimeStep
    /\ UNCHANGED <<debug, tasks, keys, files, content, workers, rpc, expired, wake,
                   completedAt, reapDue, rmFailed>>
    /\ Quiet

\* The clock of the behaviours checked for progress.
TickLive ==
    /\ clock + TimeStep <= MaxLiveTime
    /\ clock' = clock + TimeStep
    /\ UNCHANGED <<debug, tasks, keys, files, content, workers, rpc, expired, wake,
                   completedAt, reapDue, rmFailed>>
    /\ Quiet

\* ------------------------------------------------------------ POST /generate
\* The handler runs on the event loop, so not while a reaper tick is under way.
Accept(id, p) ==
    /\ rpc = "sleep"
    /\ qpc = "idle"
    /\ Len(workers) < MaxSubmits
    /\ tasks' = [tasks EXCEPT ![id] = NewTask(clock)]
    /\ keys' = IF id \in Range(keys) THEN keys ELSE Append(keys, id)
    /\ workers' = Append(workers, NewWorker(id, p))
    /\ completedAt' = [completedAt EXCEPT ![id] = None]
    /\ reapDue' = reapDue \ {id}
    /\ rmFailed' = rmFailed \ {id}
    /\ UNCHANGED <<clock, debug, files, content, rpc, expired, wake>>
    /\ Quiet

\* A request of a client that always sends the same prompt.
Submit(id) == Accept(id, "p1")

\* A request in a behaviour that also has status or queue requests.
SubmitFew(id) == Len(workers) < MaxApiJobs /\ Submit(id)

\* A request with any prompt.
SubmitPrompt(id) == \E p \in Prompts : Accept(id, p)

\* ------------------------------------------------------------ __background_generate
WorkerIds == 1..Len(workers)

SetW(w, rec) == workers' = [workers EXCEPT ![w] = rec]

\* self.__tasks[user_id][...] = ... raises KeyError when the key is missing;
\* the exception is handled by the except clause of __background_generate.
Raise(w, m) == SetW(w, [workers[w] EXCEPT !.pc = "except", !.msg = m, !.held = FALSE])

StartCreates(w) ==
    LET me == workers[w] IN
    /\ me.pc = "queued"
    /\ tasks' = [tasks EXCEPT ![me.id] =
                    IF Present(me.id) THEN [@ EXCEPT !.status = "processing"]
                    ELSE [NewTask(clock) EXCEPT !.status = "processing"]]
    /\ SetW(w, [me EXCEPT !.pc = "generating", !.held = TRUE, !.gens = @ + 1])
    /\ UNCHANGED <<clock, debug, keys, files, content, rpc, expired, wake, completedAt, reapDue, rmFailed>>
    /\ IF Present(workers[w].id) THEN StatusWrite ELSE Quiet

\* self.__tasks[user_id]["status"] = "processing", then the call of __generate
Start(w) ==
    LET me == workers[w] IN
    /\ me.pc = "queued"
    /\ IF Present(me.id)
       THEN /\ tasks' = [tasks EXCEPT ![me.id].status = "processing"]
            /\ SetW(w, [me EXCEPT !.pc = "generating", !.held = TRUE, !.gens = @ + 1])
       ELSE /\ Raise(w, "KeyError")
            /\ UNCHANGED tasks
    /\ UNCHANGED <<clock, debug, keys, files, content, rpc, expired, wake, completedAt, reapDue, rmFailed>>
    /\ IF Present(workers[w].id) THEN StatusWrite ELSE Quiet

\* AudioLDMController.generate_audio returns or raises.  After sampling it walks
\* os.listdir(save_path) and lists every entry as a directory: an artifact file
\* left in the output directory makes that raise, before or after the new
\* artifact was moved into place.
GenReturn(w) ==
    LET me == workers[w] IN
    /\ me.pc = "generating"
    /\ files = {}
    /\ files' = files \cup {OutPath(me.id)}
    /\ content' = [content EXCEPT ![me.id] = me.prompt]
    /\ SetW(w, [me EXCEPT !.pc = "setDone", !.gen = "ok"])
    /\ UNCHANGED <<clock, debug, tasks, keys, rpc, expired, wake, completedAt, reapDue, rmFailed>>
    /\ Quiet

GenRaise(w) ==
    LET me == workers[w] IN
    /\ me.pc = "generating"
    /\ \/ /\ \E m \in Msgs : SetW(w, [me EXCEPT !.pc = "except", !.gen = "fail", !.msg = m])
          /\ UNCHANGED <<files, content>>
       \/ /\ files # {}
          /\ SetW(w, [me EXCEPT !.pc = "except", !.gen = "fail", !.msg = "NotADirectoryError"])
          /\ files' = files \cup {OutPath(me.id)}
          /\ content' = IF OutPath(me.id) \in files THEN content
                         ELSE [content EXCEPT ![me.id] = me.prompt]
    /\ UNCHANGED <<clock, debug, tasks, keys, rpc, expired, wake, completedAt, reapDue, rmFailed>>
    /\ Quiet

\* self.__tasks[user_id]["status"] = "done"
SetDone(w) ==
    LET me == workers[w] IN
    /\ me.pc = "setDone"
    /\ IF Present(me.id)
       THEN /\ tasks' = [tasks EXCEPT ![me.id].status = "done"]
            /\ SetW(w, [me EXCEPT !.pc = "setResult", !.held = FALSE, !.setDone = TRUE])
       ELSE /\ Raise(w, "KeyError")
            /\ UNCHANGED tasks
    /\ UNCHANGED <<clock, debug, keys, files, content, rpc, expired, wake, completedAt, reapDue, rmFailed>>
    /\ IF Present(workers[w].id) THEN StatusWrite ELSE Quiet

\* self.__tasks[user_id]["result"] = out_path
SetResult(w) ==
    LET me == workers[w] IN
    /\ me.pc = "setResult"
    /\ IF Present(me.id)
       THEN /\ tasks' = [tasks EXCEPT ![me.id].result = OutPath(me.id)]
            /\ SetW(w, [me EXCEPT !.pc = "setTimestamp"])
       ELSE /\ Raise(w, "KeyError")
            /\ UNCHANGED tasks
    /\ UNCHANGED <<clock, debug, keys, files, content, rpc, expired, wake, completedAt, reapDue, rmFailed>>
    /\ Quiet

\* self.__tasks[user_id]["timestamp"] = time.time()
SetTimestamp(w) ==
    LET me == workers[w] IN
    /\ me.pc = "setTimestamp"
    /\ IF Present(me.id)
       THEN /\ tasks' = [tasks EXCEPT ![me.id].timestamp = clock]
            /\ completedAt' = [completedAt EXCEPT ![me.id] = clock]
            /\ SetW(w, [me EXCEPT !.pc = "save"])
       ELSE /\ Raise(w, "KeyError")
            /\ UNCHANGED <<tasks, completedAt>>
    /\ UNCHANGED <<clock, debug, keys, files, content, rpc, expired, wake, reapDue, rmFailed>>
    /\ Quiet

SaveFailurePropagates(r) == IF r \in {"openfail", "connerr", "non2xx"} THEN "except" ELSE "finished"

\* __save_to_db: where the worker continues once the store attempt ended with
\* result r; the except clause logs the failure and the method returns.
AfterSave(r) == "finished"

\* __save_to_db up to open(audio_path, "rb")
SaveOpen(w) ==
    LET me == workers[w] IN
    /\ me.pc = "save"
    /\ IF debug
       THEN SetW(w, [me EXCEPT !.pc = "finished", !.save = "skipped"])
       ELSE IF OutPath(me.id) \in files
            THEN SetW(w, [me EXCEPT !.pc = "posting", !.saves = @ + 1])
            ELSE SetW(w, [me EXCEPT !.pc = AfterSave("openfail"), !.saves = @ + 1,
                                    !.save = "openfail"])
    /\ UNCHANGED <<clock, debug, tasks, keys, files, content, rpc, expired, wake,
                   completedAt, reapDue, rmFailed>>
    /\ Quiet

\* requests.post(...); os.remove(audio_path); response.raise_for_status()
\* A connection error leaves the file; any response removes it.
SavePost(w) ==
    LET me == workers[w] IN
    /\ me.pc = "posting"
    /\ \E r \in {"connerr", "ok", "non2xx"} :
          /\ files' = IF r = "connerr" THEN files ELSE files \ {OutPath(me.id)}
          /\ content' = IF r = "connerr" THEN content
                         ELSE [content EXCEPT ![me.id] = NoPrompt]
          /\ SetW(w, [me EXCEPT !.pc = AfterSave(r), !.save = r])
    /\ UNCHANGED <<clock, debug, tasks, keys, rpc, expired, wake, completedAt, reapDue, rmFailed>>
    /\ Quiet

\* except Exception as e: self.__tasks[user_id]["status"] = "error"
\* A KeyError raised here leaves __background_generate.
SetStatusError(w) ==
    LET me == workers[w] IN
    /\ me.pc = "except"
    /\ IF Present(me.id)
       THEN /\ tasks' = [tasks EXCEPT ![me.id].status = "error"]
            /\ completedAt' = [completedAt EXCEPT ![me.id] = clock]
            /\ SetW(w, [me EXCEPT !.pc = "setError", !.held = FALSE, !.errStatus = TRUE])
       ELSE /\ SetW(w, [me EXCEPT !.pc = "crashed", !.held = FALSE])
            /\ UNCHANGED <<tasks, completedAt>>
    /\ UNCHANGED <<clock, debug, keys, files, content, rpc, expired, wake, reapDue, rmFailed>>
    /\ IF Present(workers[w].id) THEN StatusWrite ELSE Quiet

\* self.__tasks[user_id]["error"] = str(e)
SetError(w) ==
    LET me == workers[w] IN
    /\ me.pc = "setError"
    /\ IF Present(me.id)
       THEN /\ tasks' = [tasks EXCEPT ![me.id].error = <<me.msg>>]
            /\ SetW(w, [me EXCEPT !.pc = "finished", !.errSet = TRUE])
       ELSE /\ SetW(w, [me EXCEPT !.pc = "crashed"])
            /\ UNCHANGED tasks
    /\ UNCHANGED <<clock, debug, keys, files, content, rpc, expired, wake, completedAt, reapDue, rmFailed>>
    /\ Quiet

\* ------------------------------------------------------------ __cleanup_expired_files
Terminal(t) == t.status \in {"done", "error"}

IsExpiredDoneOnly(t, n) == t.status = "done" /\ n - t.timestamp > ExpireTime

\* "timestamp" in t and now - t["timestamp"] > self.__expire_time
\* (every task dict is created with a timestamp)
IsExpired(t, n) == n - t.timestamp > ExpireTime

Due(id, n) ==
    /\ Present(id)
    /\ Terminal(tasks[id])
    /\ completedAt[id] # None
    /\ n - completedAt[id] > ExpireTime

\* now = time.time(); expired = [...]; an empty list goes straight to the sleep
ReaperScan ==
    /\ rpc = "sleep"
    /\ qpc = "idle"
    /\ clock >= wake
    /\ expired' = SelectSeq(keys, LAMBDA id : IsExpired(tasks[id], clock))
    /\ reapDue' = {id \in Ids : Due(id, clock)}
    /\ rmFailed' = {}
    /\ IF expired' = <<>>
       THEN /\ rpc' = "sleep"
            /\ wake' = clock + ReapPeriod
       ELSE /\ rpc' = "remove"
            /\ UNCHANGED wake
    /\ UNCHANGED <<clock, debug, tasks, keys, files, content, workers, completedAt>>
    /\ Quiet

ReaperRemoveFatal ==
    /\ rpc = "remove"
    /\ LET tid == Head(expired) IN
       IF tasks[tid].result # NoKey /\ tasks[tid].result \in files
       THEN \/ /\ files' = files \ {tasks[tid].result}
               /\ content' = [content EXCEPT ![tid] = NoPrompt]
               /\ rpc' = "delete"
               /\ UNCHANGED rmFailed
            \/ /\ UNCHANGED <<files, content>>
               /\ rpc' = "crashed"
               /\ rmFailed' = rmFailed \cup {tid}
       ELSE /\ rpc' = "delete"
            /\ UNCHANGED <<files, content, rmFailed>>
    /\ UNCHANGED <<clock, debug, tasks, keys, workers, expired, wake,
                   completedAt, reapDue>>
    /\ Quiet

\* result_path = self.__tasks[tid].get("result")
\* if result_path and os.path.exists(result_path): try os.remove except pass
ReaperRemove ==
    /\ rpc = "remove"
    /\ LET tid == Head(expired) IN
       IF tasks[tid].result # NoKey /\ tasks[tid].result \in files
       THEN \/ /\ files' = files \ {tasks[tid].result}
               /\ content' = [content EXCEPT ![tid] = NoPrompt]
               /\ UNCHANGED rmFailed
            \/ /\ UNCHANGED <<files, content>>
               /\ rmFailed' = rmFailed \cup {tid}
       ELSE UNCHANGED <<files, content, rmFailed>>
    /\ rpc' = "delete"
    /\ UNCHANGED <<clock, debug, tasks, keys, workers, expired, wake,
                   completedAt, reapDue>>
    /\ Quiet

\* del self.__tasks[tid]; after the last one: await asyncio.sleep(300)
ReaperDelete ==
    /\ rpc = "delete"
    /\ LET tid == Head(expired) IN
       /\ tasks' = [tasks EXCEPT ![tid] = Absent]
       /\ keys' = RemoveKey(keys, tid)
       /\ completedAt' = [completedAt EXCEPT ![tid] = None]
    /\ expired' = Tail(expired)
    /\ IF expired' = <<>>
       THEN /\ rpc' = "sleep"
            /\ wake' = clock + ReapPeriod
       ELSE /\ rpc' = "remove"
            /\ UNCHANGED wake
    /\ UNCHANGED <<clock, debug, files, content, workers, reapDue, rmFailed>>
    /\ Quiet

\* ------------------------------------------------------------ GET /status/{task_id}
get_status(id) ==
    IF ~Present(id)
    THEN [code |-> 404, body |-> [error |-> "Task not found"]]
    ELSE [code |-> 200, body |-> [task_id |-> id, status |-> tasks[id].status]]

\* The route is declared as /status/{task_id} while the handler's parameter is
\* user_id: the framework binds user_id to the query string, where it is
\* required, and does not pass the path segment to the handler.
status_route(path, q) ==
    IF q = Missing
    THEN [code |-> 422, body |-> [detail |-> "query.user_id: field required"]]
    ELSE get_status(q)

\* A GET /status/{path} request whose query string carries user_id = q, or
\* no user_id at all.
GetStatus(path, q) ==
    /\ rpc = "sleep"
    /\ qpc = "idle"
    /\ sresp' = [path |-> path, query |-> q, resp |-> status_route(path, q)]
    /\ pong' = NoExchange
    /\ UNCHANGED <<clock, debug, tasks, keys, files, content, workers, rpc, expired,
                   wake, completedAt, reapDue, rmFailed, qpc, qresp, qclean>>

\* ------------------------------------------------------------ GET /queue
Statuses == <<"pending", "processing", "done", "error">>

ListDoneAlsoError(st) ==
    SelectSeq(keys, LAMBDA tid : tasks[tid].status = st
                                   \/ (st = "done" /\ tasks[tid].status = "error"))

\* [tid for tid, t in self.__tasks.items() if t["status"] == st]
ListByStatus(st) == SelectSeq(keys, LAMBDA tid : tasks[tid].status = st)

AfterEntry(e) ==
    CASE e = "pending" -> "processing"
      [] e = "processing" -> "done"
      [] e = "done" -> "error"
      [] e = "error" -> "ready"

\* "total": len(self.__tasks)
QueueTotal ==
    /\ rpc = "sleep"
    /\ qpc = "idle"
    /\ qresp' = [total |-> Len(keys), pending |-> <<>>, processing |-> <<>>,
                  done |-> <<>>, error |-> <<>>]
    /\ qclean' = TRUE
    /\ qpc' = "pending"
    /\ sresp' = NoExchange
    /\ pong' = NoExchange
    /\ UNCHANGED <<clock, debug, tasks, keys, files, content, workers, rpc, expired,
                   wake, completedAt, reapDue, rmFailed>>

\* one of the four list comprehensions of the dict display
QueueList ==
    /\ qpc \in Range(Statuses)
    /\ qresp' = [qresp EXCEPT ![qpc] = ListByStatus(qpc)]
    /\ qpc' = AfterEntry(qpc)
    /\ sresp' = NoExchange
    /\ pong' = NoExchange
    /\ UNCHANGED <<clock, debug, tasks, keys, files, content, workers, rpc, expired,
                   wake, completedAt, reapDue, rmFailed, qclean>>

\* the handler returns the dict
QueueReturn ==
    /\ qpc = "ready"
    /\ qpc' = "idle"
    /\ qresp' = NoKey
    /\ qclean' = TRUE
    /\ sresp' = NoExchange
    /\ pong' = NoExchange
    /\ UNCHANGED <<clock, debug, tasks, keys, files, content, workers, rpc, expired,
                   wake, completedAt, reapDue, rmFailed>>

\* ------------------------------------------------------------ GET /ping
\* JSONResponse(content={"message": "pong"})
ping == [code |-> 200, body |-> [message |-> "pong"]]

Ping ==
    /\ rpc = "sleep"
    /\ qpc = "idle"
    /\ pong' = ping
    /\ sresp' = NoExchange
    /\ UNCHANGED <<clock, debug, tasks, keys, files, content, workers, rpc, expired,
                   wake, completedAt, reapDue, rmFailed, qpc, qresp, qclean>>

Next ==
    \/ Tick
    \/ \E id \in Ids : Submit(id)
    \/ \E w \in WorkerIds : Start(w)
    \/ \E w \in WorkerIds : GenReturn(w)
    \/ \E w \in WorkerIds : GenRaise(w)
    \/ \E w \in WorkerIds : SetDone(w)
    \/ \E w \in WorkerIds : SetResult(w)
    \/ \E w \in WorkerIds : SetTimestamp(w)
    \/ \E w \in WorkerIds : SaveOpen(w)
    \/ \E w \in WorkerIds : SavePost(w)
    \/ \E w \in WorkerIds : SetStatusError(w)
    \/ \E w \in WorkerIds : SetError(w)
    \/ ReaperScan
    \/ ReaperRemove
    \/ ReaperDelete

Spec == Init /\ [][Next]_vars

\* The same system with clients that choose their prompts.
NextPrompt ==
    \/ Tick
    \/ \E id \in Ids : SubmitPrompt(id)
    \/ \E w \in WorkerIds : Start(w)
    \/ \E w \in WorkerIds : GenReturn(w)
    \/ \E w \in WorkerIds : GenRaise(w)
    \/ \E w \in WorkerIds : SetDone(w)
    \/ \E w \in WorkerIds : SetResult(w)
    \/ \E w \in WorkerIds : SetTimestamp(w)
    \/ \E w \in WorkerIds : SaveOpen(w)
    \/ \E w \in WorkerIds : SavePost(w)
    \/ \E w \in WorkerIds : SetStatusError(w)
    \/ \E w \in WorkerIds : SetError(w)
    \/ ReaperScan
    \/ ReaperRemove
    \/ ReaperDelete

SpecPrompt == Init /\ [][NextPrompt]_vars

\* The system with clients that also query the status of jobs.
NextStatus ==
    \/ Tick
    \/ \E id \in Ids : SubmitFew(id)
    \/ \E path \in Ids, q \in Ids \cup {Missing} : GetStatus(path, q)
    \/ \E w \in WorkerIds : Start(w)
    \/ \E w \in WorkerIds : GenReturn(w)
    \/ \E w \in WorkerIds : GenRaise(w)
    \/ \E w \in WorkerIds : SetDone(w)
    \/ \E w \in WorkerIds : SetResult(w)
    \/ \E w \in WorkerIds : SetTimestamp(w)
    \/ \E w \in WorkerIds : SaveOpen(w)
    \/ \E w \in WorkerIds : SavePost(w)
    \/ \E w \in WorkerIds : SetStatusError(w)
    \/ \E w \in WorkerIds : SetError(w)
    \/ ReaperScan
    \/ ReaperRemove
    \/ ReaperDelete

SpecStatus == Init /\ [][NextStatus]_vars

\* The system with clients that also list the queue.
NextQueue ==
    \/ Tick
    \/ \E id \in Ids : SubmitFew(id)
    \/ QueueTotal
    \/ QueueList
    \/ QueueReturn
    \/ \E w \in WorkerIds : Start(w)
    \/ \E w \in WorkerIds : GenReturn(w)
    \/ \E w \in WorkerIds : GenRaise(w)
    \/ \E w \in WorkerIds : SetDone(w)
    \/ \E w \in WorkerIds : SetResult(w)
    \/ \E w \in WorkerIds : SetTimestamp(w)
    \/ \E w \in WorkerIds : SaveOpen(w)
    \/ \E w \in WorkerIds : SavePost(w)
    \/ \E w \in WorkerIds : SetStatusError(w)
    \/ \E w \in WorkerIds : SetError(w)
    \/ ReaperScan
    \/ ReaperRemove
    \/ ReaperDelete

SpecQueue == Init /\ [][NextQueue]_vars

\* The system with clients that use every route.
NextApi ==
    \/ Tick
    \/ \E id \in Ids : SubmitFew(id)
    \/ \E path \in Ids, q \in Ids \cup {Missing} : GetStatus(path, q)
    \/ QueueTotal
    \/ QueueList
    \/ QueueReturn
    \/ Ping
    \/ \E w \in WorkerIds : Start(w)
    \/ \E w \in WorkerIds : GenReturn(w)
    \/ \E w \in WorkerIds : GenRaise(w)
    \/ \E w \in WorkerIds : SetDone(w)
    \/ \E w \in WorkerIds : SetResult(w)
    \/ \E w \in WorkerIds : SetTimestamp(w)
    \/ \E w \in WorkerIds : SaveOpen(w)
    \/ \E w \in WorkerIds : SavePost(w)
    \/ \E w \in WorkerIds : SetStatusError(w)
    \/ \E w \in WorkerIds : SetError(w)
    \/ ReaperScan
    \/ ReaperRemove
    \/ ReaperDelete

SpecApi == Init /\ [][NextApi]_vars

\* The core system, with time that passes and a reaper that is scheduled: the
\* expiry coroutine is a task of the event loop, which resumes it when its
\* sleep has ended and which no worker thread can hold up.  Nothing is
\* assumed about the progress of the workers.
NextLive ==
    \/ TickLive
    \/ \E id \in Ids : SubmitFew(id)
    \/ \E w \in WorkerIds : Start(w)
    \/ \E w \in WorkerIds : GenReturn(w)
    \/ \E w \in WorkerIds : GenRaise(w)
    \/ \E w \in WorkerIds : SetDone(w)
    \/ \E w \in WorkerIds : SetResult(w)
    \/ \E w \in WorkerIds : SetTimestamp(w)
    \/ \E w \in WorkerIds : SaveOpen(w)
    \/ \E w \in WorkerIds : SavePost(w)
    \/ \E w \in WorkerIds : SetStatusError(w)
    \/ \E w \in WorkerIds : SetError(w)
    \/ ReaperScan
    \/ ReaperRemove
    \/ ReaperDelete

SpecLive ==
    /\ Init /\ [][NextLive]_vars
    /\ WF_vars(TickLive)
    /\ WF_vars(ReaperScan) /\ WF_vars(ReaperRemove) /\ WF_vars(ReaperDelete)

\* ====================================================================
\* Properties
\* ====================================================================
Forward(a, b) ==
    \/ a = b
    \/ a = "pending" /\ b = "processing"
    \/ a = "processing" /\ b \in {"done", "error"}

\* C1: the status of an id that stays in the registry only moves forward,
\* Pending -> Processing -> {Done, Error}; nothing leaves Done or Error.
C1_StatusMonotonic ==
    [][\A id \in Ids :
          (tasks[id] # Absent /\ tasks'[id] # Absent)
             => Forward(tasks[id].status, tasks'[id].status)]_vars

InFlight(id) == Cardinality({w \in WorkerIds : workers[w].id = id /\ workers[w].held})

\* C2: at most one worker execution holds a given id in Processing.
C2_OneHolderPerId == \A id \in Ids : InFlight(id) <= 1

Generating == {w \in WorkerIds : workers[w].pc = "generating"}

\* C3: at most one generation call (pool size 1) executes at any instant.
C3_GenerationWithinPool == Cardinality(Generating) <= 1

\* C4: an entry removed from the registry was in Done or Error; pending and
\* processing entries are never reaped.
C4_OnlyTerminalReaped ==
    [][\A id \in Ids :
          (tasks[id] # Absent /\ tasks'[id] = Absent) => Terminal(tasks[id])]_vars

\* C5: a job that entered Done or Error less than TTL seconds ago is not
\* removed by the reaper.
C5_RecentTerminalKept ==
    [][\A id \in Ids :
          (tasks[id] # Absent /\ tasks'[id] = Absent
             /\ Terminal(tasks[id]) /\ completedAt[id] # None)
          => ~(clock - completedAt[id] < ExpireTime)]_vars

C7_SavedExactlyOnce ==
    ~debug =>
        \A w \in WorkerIds :
            /\ workers[w].saves <= 1
            /\ workers[w].saves = 1 => workers[w].setDone
            /\ (Ended(w) /\ workers[w].gen = "ok") => workers[w].saves = 1

\* C8: a job whose generation call raised ends with status error and a
\* non-empty message recorded, is not run again, and is never handed to
\* the persister.
C8_GenerationFailureRecorded ==
    \A w \in WorkerIds :
        workers[w].gen = "fail" =>
            /\ workers[w].saves = 0
            /\ workers[w].gens <= 1
            /\ Ended(w) => (workers[w].errSet /\ workers[w].msg # "")

SaveFailed(w) == workers[w].save \in {"openfail", "connerr", "non2xx"}

SoleWorker(w) == \A v \in WorkerIds : v # w => workers[v].id # workers[w].id

\* C9: a worker whose store attempt failed never records an error for the
\* job; with no other submission of the id, the record stays at done for as
\* long as it is in the registry.
C9_SaveFailureKeepsDone ==
    \A w \in WorkerIds :
        (Ended(w) /\ SaveFailed(w)) =>
            /\ workers[w].pc = "finished"
            /\ ~workers[w].errSet
            /\ (SoleWorker(w) /\ Present(workers[w].id))
                  => tasks[workers[w].id].status = "done"

C9_Witness ==
    \E w \in WorkerIds :
        /\ Ended(w) /\ workers[w].save = "non2xx"
        /\ SoleWorker(w) /\ Present(workers[w].id)
        /\ tasks[workers[w].id].status = "done"

\* C10: every registry entry with a result path refers to an artifact file
\* that exists in the output directory.
C10_ResultFileExists ==
    \A id \in Ids :
        (Present(id) /\ tasks[id].result # NoKey) => tasks[id].result \in files

\* C13: while no worker execution for an id has taken a step yet, a status
\* query for that id answers 200 pending, never 404.
C13_PendingAfterSubmit ==
    \A id \in Ids :
        ((\E w \in WorkerIds : workers[w].id = id)
           /\ (\A w \in WorkerIds : workers[w].id = id => workers[w].pc = "queued"))
        => get_status(id) = [code |-> 200, body |-> [task_id |-> id, status |-> "pending"]]

\* C14: with the persister in use, a job whose generation call is running
\* while every other job has ended can still be processed to Done: no
\* error of another job stands in its way.
C14_OtherJobsUnaffected ==
    \A w \in WorkerIds :
        (~debug /\ workers[w].pc = "generating"
           /\ (\A v \in WorkerIds : v # w => Ended(v) /\ workers[v].id # workers[w].id))
        => ENABLED GenReturn(w)

\* C15: jobs of distinct ids enter Processing in the order in which they
\* were submitted.
C15_FifoProcessing ==
    \A a, b \in WorkerIds :
        (a < b /\ workers[a].id # workers[b].id /\ workers[b].gens >= 1)
        => workers[a].gens >= 1

\* C16: every accepted POST /generate answers 202 with task_id = user_id and
\* returns with the job only scheduled: its generation call has not started
\* and no generation call was started by the handler.
C16_SubmitAcceptedWithoutBlocking ==
    [][Len(workers') > Len(workers) =>
          LET w == workers'[Len(workers')] IN
          /\ Len(workers') = Len(workers) + 1
          /\ w.resp.code = 202
          /\ w.resp.body.task_id = w.id
          /\ tasks'[w.id].status = "pending"
          /\ w.pc = "queued" /\ w.gens = 0
          /\ {v \in 1..Len(workers') : workers'[v].pc = "generating"} = Generating]_vars

C16_Witness ==
    \E w, v \in WorkerIds :
        /\ workers[w].pc = "queued" /\ workers[w].resp.code = 202
        /\ workers[v].pc = "generating"

\* C18: no submission is lost: a worker execution that has ended has set
\* its job to Done or to Error.
C18_NoLostJob ==
    \A w \in WorkerIds : Ended(w) => (workers[w].setDone \/ workers[w].errStatus)

\* C20: no exception leaves __background_generate.
C20_NoEscapingException == \A w \in WorkerIds : workers[w].pc # "crashed"

LastFor(id) == CHOOSE w \in WorkerIds :
                  workers[w].id = id /\ \A v \in WorkerIds : workers[v].id = id => v <= w

\* C11: after an id was submitted again before its earlier job completed,
\* once all its executions have ended the recorded state and the artifact
\* are those of the latest submission and its prompt.
C11_SecondSubmissionWins ==
    \A id \in Ids :
        ((\E w \in WorkerIds : workers[w].id = id /\ workers[w].overlap)
           /\ (\A w \in WorkerIds : workers[w].id = id => Ended(w))
           /\ Present(id))
        => /\ (tasks[id].status = "done") <=> (workers[LastFor(id)].gen = "ok")
           /\ OutPath(id) \in files => content[id] = workers[LastFor(id)].prompt

Occurrences(id) ==
    Cardinality({<<e, i>> \in Range(Statuses) \X (1..Len(keys)) :
                    i <= Len(qresp[e]) /\ qresp[e][i] = id})

QueueConsistent ==
    /\ qresp.total = Len(qresp.pending) + Len(qresp.processing)
                       + Len(qresp.done) + Len(qresp.error)
    /\ \A id \in Ids : Occurrences(id) = (IF Present(id) THEN 1 ELSE 0)

\* C12 (as claimed): every response of GET /queue has total equal to the sum
\* of the four list lengths and lists every registry id exactly once, also
\* when workers change statuses while it is built.
C12_QueueAlwaysConsistent == qpc = "ready" => QueueConsistent

\* C12 (amended): the same, for every response during whose construction no
\* worker wrote a status.
C12_QueueConsistentSnapshot == (qpc = "ready" /\ qclean) => QueueConsistent

C12_Witness ==
    /\ qpc = "ready" /\ qclean /\ qresp.total >= 1
    /\ Len(qresp.processing) = 1
    /\ \E w \in WorkerIds : workers[w].pc = "setDone"

\* C17: GET /status/{id} answers for the id of the path: 200 with that id
\* and its current status when it is in the registry, 404 when it is not,
\* and leaves the registry unchanged.
C17_StatusOfPathId ==
    [][(sresp' # NoExchange) =>
          /\ sresp'.resp = get_status(sresp'.path)
          /\ tasks' = tasks /\ keys' = keys]_vars

\* C21: the timestamp the reaper measures the age of a record from is the
\* time at which the record entered Done or Error, for either state.
C21_AnchorIsCompletionTime ==
    \A id \in Ids :
        (Present(id) /\ Terminal(tasks[id]) /\ completedAt[id] # None)
        => tasks[id].timestamp = completedAt[id]

\* C22: a record has a result only while its status is done and an error
\* only while its status is error.
C22_FieldsMatchStatus ==
    \A id \in Ids :
        Present(id) =>
            /\ tasks[id].result # NoKey => tasks[id].status = "done"
            /\ tasks[id].error # NoKey => tasks[id].status = "error"

Registered == {id \in Ids : Present(id)}

\* C23: the set of ids in the registry shrinks only by the reaper's delete
\* and grows only by a submission; steps of workers, status queries, queue
\* listings and ping leave it as it is.
C23_RegistryFrame ==
    [][LET after == {id \in Ids : tasks'[id] # Absent} IN
       /\ Range(keys') = after
       /\ (Registered \ after # {})
             => (rpc = "delete" /\ Registered \ after = {Head(expired)}
                   /\ after \subseteq Registered)
       /\ (after \ Registered # {})
             => (/\ Len(workers') = Len(workers) + 1
                 /\ after \ Registered = {workers'[Len(workers')].id}
                 /\ Registered \subseteq after)
       /\ (Len(workers') = Len(workers) /\ workers' # workers) => after = Registered
       /\ sresp' # NoExchange => after = Registered
       /\ (qpc' # qpc \/ qresp' # qresp) => after = Registered
       /\ pong' # NoExchange => after = Registered]_vars

C23_Witness ==
    /\ qpc = "ready" /\ ~qclean
    /\ \E w \in WorkerIds : workers[w].setDone /\ Present(workers[w].id)

\* C24: a failed removal of an expired job's artifact file does not stop
\* the reaper: the job's entry is deleted in the same tick, the tick goes
\* through all of its expired jobs, and the loop returns to its sleep, from
\* which the next tick starts.
C24_RemoveFailureNotFatal ==
    /\ rpc \in {"sleep", "remove", "delete"}
    /\ \A id \in rmFailed : Present(id) => (rpc = "delete" /\ Head(expired) = id)
    /\ rpc = "sleep" <=> expired = <<>>
    /\ rpc = "remove" => ENABLED ReaperRemove
    /\ rpc = "delete" => ENABLED ReaperDelete
    /\ (rpc = "sleep" /\ qpc = "idle" /\ clock >= wake) => ENABLED ReaperScan
    /\ (rpc = "sleep" /\ rmFailed # {}) => wake <= clock + ReapPeriod

C24_Witness ==
    /\ rpc = "remove"
    /\ rmFailed # {}
    /\ \A id \in rmFailed : ~Present(id)

BeingReaped(id) == rpc # "sleep" /\ id \in Range(expired)

\* C25: while a job submitted once is Done and the reaper has not come for
\* it, its artifact is in the output directory or was accepted by the
\* persister: the bridge removes the local copy only after a 2xx response.
C25_ArtifactKeptOrStored ==
    \A w \in WorkerIds :
        LET id == workers[w].id IN
        (/\ SoleWorker(w) /\ workers[w].setDone
         /\ Present(id) /\ tasks[id].status = "done"
         /\ ~BeingReaped(id))
        => (OutPath(id) \in files \/ workers[w].save = "ok")

\* A record stamped so late that its expiry, or the reaper tick after it,
\* lies beyond the last value of the modelled clock.
LastTime == (MaxLiveTime \div TimeStep) * TimeStep

BeyondHorizon(id) == tasks[id].timestamp + ExpireTime + ReapPeriod > LastTime

\* C26: once no further submission arrives, every record in the registry,
\* in whatever state its job is, is eventually removed, provided time passes
\* and the reaper keeps ticking.
C26_NoLeak ==
    \A id \in Ids :
        (Present(id) /\ Len(workers) = MaxApiJobs)
            ~> (~Present(id) \/ BeyondHorizon(id))

C26_Witness ==
    /\ Len(workers) = MaxApiJobs
    /\ \E w \in WorkerIds : workers[w].pc = "generating" /\ ~Present(workers[w].id)

====
